---- MODULE Spec2Model ----
(***************************************************************************)
(* Model of graph/examples/validate.rs: the schema validation pipeline,    *)
(* the allocation counter, the size profiler, the two runners and the      *)
(* source reader of `main`.                                                *)
(***************************************************************************)
EXTENDS Integers, Sequences, FiniteSets, TLC

(***************************************************************************)
(* Bounds of the model.                                                    *)
(***************************************************************************)
\* number of path arguments on the command line
MaxFiles == 2
\* number of sources (files in single mode, lines in batch mode) read in one process
MaxSources == 2
\* byte length of a raw schema text
MaxBytes == 2
\* bytes a callee allocates once per process and never releases
LazyBytes == 3
\* width of the counter word (usize), scaled down
WordBits == 6
\* number of definitions in a document of the identifier-extraction specification
MaxDefs == 3
\* number of allocator calls and resets in a run of the counter specification
MaxCalls == 4

Modulus == 2 ^ WordBits

(***************************************************************************)
(* State.                                                                  *)
(***************************************************************************)
VARIABLES
    opt,        \* struct Opts: batch, api, mode, number of schemas
    sentinelOk, \* whether "unknown" satisfies the deployment-hash format
    pc,         \* position of the single control flow
    fileNo,     \* path arguments consumed by main
    srcNo,      \* Runner invocations so far
    cur,        \* raw text handed to the Runner
    name,       \* name handed to the Runner
    derive,     \* the `api` parameter of the running parse()
    result,     \* value returned by parse() / collect_sizes()
    stage,      \* callee measured by the running Sizer::size
    sizes,      \* fields of struct Sizes collected so far
    ALLOCATED,  \* static ALLOCATED
    window,     \* bytes allocated and deallocated since the last reset or, if later,
                \* since the source was read, and the counter at that moment (base)
    lazies,     \* callees whose one-time initialisation has happened
    heap,       \* live values, named by the callee that produced them
    first,      \* Sizer.first
    stdout,     \* lines printed with println!
    stderr,     \* lines printed with eprintln! and panic messages
    status,     \* "running", "exit0", "exit1" or "panic"
    ev,         \* calls made for the current source, in order
    entry       \* value of ALLOCATED when the running parse() or Sizer::size was entered

vars == <<opt, sentinelOk, pc, fileNo, srcNo, cur, name, derive, result, stage, sizes,
          ALLOCATED, window, lazies, heap, first, stdout, stderr, status, ev,
          entry>>

(***************************************************************************)
(* The allocation counter: static ALLOCATED and impl GlobalAlloc.          *)
(***************************************************************************)
\* fetch_add made whether or not System.alloc returned a block
CounterAlloc_CountsNull(c, size, isNull) == (c + size) % Modulus

\* ALLOCATED.fetch_add(layout.size()) only when System.alloc returned non-null
CounterAlloc(c, size, isNull) == IF isNull THEN c ELSE (c + size) % Modulus

\* ALLOCATED.fetch_sub(layout.size())
CounterDealloc(c, size) == (c - size) % Modulus

(***************************************************************************)
(* Documents and identifier extraction.                                    *)
(***************************************************************************)
\* what a definition carries for the `subgraphId` directive:
\* the directive is missing, it has no `id` argument, the argument is not
\* a String, or the argument is the String `str`
NoDirective == [tag |-> "nodirective", str |-> ""]
NoIdArgument == [tag |-> "noarg", str |-> ""]
NonString == [tag |-> "nonstring", str |-> ""]
StringArg(s) == [tag |-> "string", str |-> s]

IdStrings == {"QmGood", "QmOther", "bad id"}
DirectiveShapes == {NoDirective, NoIdArgument, NonString} \cup {StringArg(s) : s \in IdStrings}

\* a definition of a document: an object type or something else (interface, enum ...)
Definitions == [kind : {"object", "other"}, subgraphId : DirectiveShapes]

RECURSIVE SelectObjects(_)
SelectObjects(doc) ==
    IF doc = <<>> THEN <<>>
    ELSE IF Head(doc).kind = "object" THEN <<Head(doc)>> \o SelectObjects(Tail(doc))
    ELSE SelectObjects(Tail(doc))

\* schema.get_object_type_definitions(): the object types in document order
get_object_type_definitions(doc) == SelectObjects(doc)

\* the first object type that carries a String id, instead of the first object type
IdString_AnyObject(doc) ==
    LET objs == SelectSeq(get_object_type_definitions(doc),
                          LAMBDA d : d.subgraphId.tag = "string")
    IN  IF objs = <<>> THEN "unknown" ELSE objs[1].subgraphId.str

\* the string handed to DeploymentHash::new
IdString(doc) ==
    LET objs == get_object_type_definitions(doc) IN
    IF objs = <<>> THEN "unknown"
    ELSE IF objs[1].subgraphId.tag = "string" THEN objs[1].subgraphId.str
    ELSE "unknown"

\* DeploymentHash::new: the strings that satisfy the deployment-hash format;
\* whether the sentinel does is left to the format in force
DeploymentHashNew(s, sOk) ==
    IF s = "unknown" THEN sOk ELSE s \in {"QmGood", "QmOther"}

\* subgraph_id that hands the string on without checking the format
subgraph_id_Unchecked(doc, sOk) == [ok |-> TRUE, id |-> IdString(doc)]

\* subgraph_id: the identifier, or a panic of `expect`
subgraph_id(doc, sOk) ==
    LET id == IdString(doc) IN
    IF DeploymentHashNew(id, sOk) THEN [ok |-> TRUE, id |-> id]
    ELSE [ok |-> FALSE, id |-> id]

(***************************************************************************)
(* Schema sources.  A raw text is described by what the external parser,   *)
(* validator and derivation make of it.                                    *)
(***************************************************************************)
ObjectType(shape) == [kind |-> "object", subgraphId |-> shape]

\* documents of the sources of `main`
SourceDocs ==
    { <<ObjectType(StringArg("QmGood"))>>,
      <<ObjectType(StringArg("bad id"))>>,
      <<ObjectType(NoDirective), ObjectType(StringArg("QmOther"))>> }

\* len: raw.len(); parses: parse_schema(raw) is Ok; doc: the parsed document;
\* valid110 / validLatest: InputSchema::parse under SPEC_VERSION_1_1_0 / the
\* latest version is Ok; apiOk / apiOkLatest: api_schema() of the schema
\* validated under SPEC_VERSION_1_1_0 / the latest version is Ok
Sources ==
    { s \in [len : 1..MaxBytes, parses : BOOLEAN, doc : SourceDocs \cup {<<>>},
             valid110 : BOOLEAN, validLatest : BOOLEAN, apiOk : BOOLEAN,
             apiOkLatest : BOOLEAN] :
        /\ s.parses => s.doc # <<>>
        /\ ~s.parses => (s.doc = <<>> /\ ~s.valid110 /\ ~s.validLatest)
        /\ ~s.valid110 => ~s.apiOk
        /\ ~s.validLatest => ~s.apiOkLatest }

NoSource == [len |-> 0, parses |-> FALSE, doc |-> <<>>, valid110 |-> FALSE,
             validLatest |-> FALSE, apiOk |-> FALSE, apiOkLatest |-> FALSE]

\* the source as the measured stages see it: their api_schema() is called
\* on the schema that InputSchema::parse_latest returned
AsLatest(src) == [src EXCEPT !.apiOk = src.apiOkLatest]

\* what start.elapsed() may return, in nanoseconds
ElapsedNanos == { 5 }

\* path arguments of single mode, as character sequences
Paths == { <<"a">>, <<"a", ",", "b">> }

\* Entry.id of a batch record
EntryIds == { 12 }

Digit(d) == CASE d = 0 -> "0" [] d = 1 -> "1" [] d = 2 -> "2" [] d = 3 -> "3"
              [] d = 4 -> "4" [] d = 5 -> "5" [] d = 6 -> "6" [] d = 7 -> "7"
              [] d = 8 -> "8" [] d = 9 -> "9"

RECURSIVE Decimal(_)
Decimal(n) == IF n < 10 THEN <<Digit(n)>> ELSE Decimal(n \div 10) \o <<Digit(n % 10)>>

\* format!("sgd{}", entry.id)
EntryName(id) ==
    <<"s", "g", "d">> \o (IF id < 0 THEN <<"-">> \o Decimal(0 - id) ELSE Decimal(id))

(***************************************************************************)
(* Allocation behaviour of the external callees.                           *)
(***************************************************************************)
Callees == {"parse_schema", "InputSchema::parse", "InputSchema::parse_latest", "api_schema"}

\* scratch memory a callee allocates and releases within one call
TempBytes(f, src) == src.len

\* memory owned by the value a call returns
ResultBytes(f, src) ==
    CASE f = "parse_schema" -> src.len + 1
      [] f = "subgraph_id" -> 1
      [] f = "InputSchema::parse" -> 2 * src.len
      [] f = "InputSchema::parse_latest" -> 2 * src.len + 1
      [] f = "api_schema" -> 3 * src.len

\* api.document().to_string().len()
ApiTextLen(src) == 4 * src.len

\* whether the callee succeeds on the source
CalleeOk(f, src) ==
    CASE f = "parse_schema" -> src.parses
      [] f = "InputSchema::parse" -> src.valid110
      [] f = "InputSchema::parse_latest" -> src.validLatest
      [] f = "api_schema" -> src.apiOk

\* the counter together with the bytes allocated and deallocated since the
\* last reset (c: the counter, a: allocated, d: deallocated)
TrackAlloc(t, size) == [c |-> CounterAlloc(t.c, size, FALSE), a |-> t.a + size, d |-> t.d]
TrackDealloc(t, size) == [c |-> CounterDealloc(t.c, size), a |-> t.a, d |-> t.d + size]

\* the tracker after one call of f: one-time initialisation on the first
\* call of the process, scratch memory, and the returned value left live
AfterCall(t, lz, f, src) ==
    LET t1 == IF f \in lz THEN t ELSE TrackAlloc(t, LazyBytes)
        t2 == TrackAlloc(t1, TempBytes(f, src))
        t3 == IF CalleeOk(f, src) THEN TrackAlloc(t2, ResultBytes(f, src)) ELSE t2
    IN  TrackDealloc(t3, TempBytes(f, src))

\* the tracker after dropping the live values named in objs
RECURSIVE AfterDrop(_, _, _)
AfterDrop(t, objs, src) ==
    IF objs = {} THEN t
    ELSE LET o == CHOOSE x \in objs : TRUE
         IN  AfterDrop(TrackDealloc(t, ResultBytes(o, src)), objs \ {o}, src)

Tracker == [c |-> ALLOCATED, a |-> window.alloc, d |-> window.free]
SetTracker(t) == ALLOCATED' = t.c /\ window' = [window EXCEPT !.alloc = t.a, !.free = t.d]

NoResult == [tag |-> "none", stage |-> "", id |-> ""]
OkResult(id) == [tag |-> "ok", stage |-> "", id |-> id]
ErrResult(f, id) == [tag |-> "err", stage |-> f, id |-> id]

NoSizes == [text |-> 0, gql |-> 0, input |-> 0, api |-> 0, api_text |-> 0, time |-> 0]

Line(kind, f, id, fields) ==
    [kind |-> kind, src |-> srcNo, name |-> name, stage |-> f, id |-> id, fields |-> fields]

\* eprintln!("Validating schema(s) from {schema}") for the file being opened
Banner == [kind |-> "banner", src |-> fileNo + 1, name |-> <<>>, stage |-> "", id |-> "",
           fields |-> <<>>]

\* the message of a panicking expect() in main
ReaderPanic(msg) == [kind |-> "panic", src |-> fileNo, name |-> <<>>, stage |-> msg, id |-> "",
                     fields |-> <<>>]

Event(op, f, ok, cold, val) == [op |-> op, f |-> f, ok |-> ok, cold |-> cold, val |-> val]

Init ==
    /\ opt \in [batch : BOOLEAN, api : BOOLEAN, mode : {"validate", "size"},
                schemas : 1..MaxFiles]
    /\ sentinelOk \in BOOLEAN
    /\ pc = "main"
    /\ fileNo = 0
    /\ srcNo = 0
    /\ cur = NoSource
    /\ name = <<>>
    /\ derive = FALSE
    /\ result = NoResult
    /\ stage = ""
    /\ sizes = NoSizes
    /\ ALLOCATED = 0
    /\ window = [base |-> 0, alloc |-> 0, free |-> 0]
    /\ lazies = {}
    /\ heap = {}
    /\ first = TRUE
    /\ stdout = <<>>
    /\ stderr = <<>>
    /\ status = "running"
    /\ ev = <<>>
    /\ entry = 0

\* a panic of expect(): message on the error stream, the process ends
Panic(msg) ==
    /\ stderr' = Append(stderr, ReaderPanic(msg))
    /\ status' = "panic"
    /\ pc' = "exited"

(***************************************************************************)
(* main: the source reader.                                                *)
(***************************************************************************)
\* batch mode, `for schema in &opt.schemas`: banner and File::open
MainBatchOpen ==
    /\ pc = "main" /\ opt.batch /\ fileNo < opt.schemas
    /\ fileNo' = fileNo + 1
    /\ \E opened \in BOOLEAN :
         IF opened
         THEN /\ stderr' = Append(stderr, Banner)
              /\ pc' = "lines"
              /\ status' = status
         ELSE /\ stderr' = stderr \o <<Banner,
                                       ReaderPanic("file exists")>>
              /\ status' = "panic"
              /\ pc' = "exited"
    /\ UNCHANGED <<opt, sentinelOk, srcNo, cur, name, derive, result, stage, sizes,
                   ALLOCATED, window, lazies, heap, first, stdout, ev, entry>>

\* batch mode, `for line in rdr.lines()`: an unreadable line and an
\* undecodable line panic, a decoded Entry is handed to the Runner
MainBatchLine ==
    /\ pc = "lines"
    /\ \/ /\ pc' = "main"
          /\ UNCHANGED <<srcNo, cur, name, stderr, status, ev, result, sizes, window>>
       \/ /\ \E msg \in {"invalid line", "line is valid json"} : Panic(msg)
          /\ UNCHANGED <<srcNo, cur, name, ev, result, sizes, window>>
       \/ /\ srcNo < MaxSources
          /\ \E id \in EntryIds, s \in Sources :
               /\ cur' = s
               /\ name' = EntryName(id)
          /\ srcNo' = srcNo + 1
          /\ ev' = <<>>
          /\ result' = NoResult
          /\ sizes' = NoSizes
          /\ window' = [base |-> ALLOCATED, alloc |-> 0, free |-> 0]
          /\ pc' = "run"
          /\ UNCHANGED <<stderr, status>>
    /\ UNCHANGED <<opt, sentinelOk, fileNo, derive, stage, ALLOCATED, lazies, heap,
                   first, stdout, entry>>

\* single mode, `for schema in &opt.schemas`: banner and read_to_string
MainSingleRead ==
    /\ pc = "main" /\ ~opt.batch /\ fileNo < opt.schemas
    /\ fileNo' = fileNo + 1
    /\ \/ /\ stderr' = stderr \o <<Banner,
                                   ReaderPanic("file exists")>>
          /\ status' = "panic"
          /\ pc' = "exited"
          /\ UNCHANGED <<srcNo, cur, name, ev, result, sizes, window>>
       \/ /\ \E path \in Paths, s \in Sources :
               /\ cur' = s
               /\ name' = path
          /\ stderr' = Append(stderr, Banner)
          /\ srcNo' = srcNo + 1
          /\ ev' = <<>>
          /\ result' = NoResult
          /\ sizes' = NoSizes
          /\ window' = [base |-> ALLOCATED, alloc |-> 0, free |-> 0]
          /\ pc' = "run"
          /\ status' = status
    /\ UNCHANGED <<opt, sentinelOk, derive, stage, ALLOCATED, lazies, heap, first, stdout, entry>>

\* main returns after the last path argument
MainReturn ==
    /\ pc = "main" /\ fileNo = opt.schemas
    /\ status' = "exit0"
    /\ pc' = "exited"
    /\ UNCHANGED <<opt, sentinelOk, fileNo, srcNo, cur, name, derive, result, stage, sizes,
                   ALLOCATED, window, lazies, heap, first, stdout, stderr, ev, entry>>

\* where a Runner returns to
AfterRun == IF opt.batch THEN "lines" ELSE "main"

\* exit() that returns to the caller instead of ending the process
Exit_Returns(code) ==
    /\ status' = status
    /\ pc' = AfterRun

\* std::process::exit(code)
Exit(code) ==
    /\ status' = code
    /\ pc' = "exited"

(***************************************************************************)
(* parse(raw, name, api): the validation pipeline.                         *)
(***************************************************************************)
\* parse as a function of its arguments: Ok(id), the error of a stage, or
\* the panic of subgraph_id
parse(src, api, sOk) ==
    IF ~CalleeOk("parse_schema", src) THEN ErrResult("parse_schema", "")
    ELSE LET r == subgraph_id(src.doc, sOk) IN
         IF ~r.ok THEN [tag |-> "panic", stage |-> "subgraph_id", id |-> r.id]
         ELSE IF ~CalleeOk("InputSchema::parse", src) THEN ErrResult("InputSchema::parse", r.id)
         ELSE IF api /\ ~CalleeOk("api_schema", src) THEN ErrResult("api_schema", r.id)
         ELSE OkResult(r.id)

\* the counter delta observed across a call
Net(before, after) == (after - before) % Modulus

\* a stage whose error is swallowed: the next stage runs all the same
CallStage_NoBail(f, next) ==
    LET c == AfterCall(Tracker, lazies, f, cur)
        ok == CalleeOk(f, cur)
    IN  /\ SetTracker(c)
        /\ lazies' = lazies \cup {f}
        /\ ev' = Append(ev, Event("stage", f, ok, f \notin lazies, Net(ALLOCATED, c.c)))
        /\ heap' = IF ok THEN heap \cup {f} ELSE heap
        /\ pc' = next
        /\ result' = result

\* a stage that succeeds only on the callee's first call of the process
CallStage_OnceOnly(f, next) ==
    LET c == AfterCall(Tracker, lazies, f, cur)
        ok == CalleeOk(f, cur) /\ f \notin lazies
    IN  /\ SetTracker(IF ok THEN c ELSE Tracker)
        /\ lazies' = lazies \cup {f}
        /\ ev' = Append(ev, Event("stage", f, ok, f \notin lazies, 0))
        /\ IF ok
           THEN /\ heap' = heap \cup {f}
                /\ pc' = next
                /\ result' = result
           ELSE /\ heap' = heap
                /\ pc' = "parse_return"
                /\ result' = ErrResult(f, result.id)

\* one failable stage of parse: the call, then the value bound to a local
\* and the next stage, or the error returned (`?` / bail!)
CallStage(f, next) ==
    LET c == AfterCall(Tracker, lazies, f, cur)
        ok == CalleeOk(f, cur)
    IN  /\ SetTracker(c)
        /\ lazies' = lazies \cup {f}
        /\ ev' = Append(ev, Event("stage", f, ok, f \notin lazies, Net(ALLOCATED, c.c)))
        /\ IF ok
           THEN /\ heap' = heap \cup {f}
                /\ pc' = next
                /\ result' = result
           ELSE /\ heap' = heap
                /\ pc' = "parse_return"
                /\ result' = ErrResult(f, result.id)

\* parse_schema(raw).map(into_static).map_err(..)?
ParseSchema ==
    /\ pc = "parse_schema"
    /\ CallStage("parse_schema", "subgraph_id")
    /\ UNCHANGED <<opt, sentinelOk, fileNo, srcNo, cur, name, derive, stage, sizes, first,
                   stdout, stderr, status, entry>>

\* let id = subgraph_id(&schema): the identifier, or the panic of expect()
SubgraphId ==
    /\ pc = "subgraph_id"
    /\ LET r == subgraph_id(cur.doc, sentinelOk)
           c == TrackAlloc(Tracker, ResultBytes("subgraph_id", cur))
       IN  /\ SetTracker(c)
           /\ heap' = heap \cup {"subgraph_id"}
           /\ ev' = Append(ev, Event("stage", "subgraph_id", r.ok, FALSE, Net(ALLOCATED, c.c)))
           /\ IF r.ok
              THEN /\ result' = OkResult(r.id)
                   /\ pc' = "input_schema"
                   /\ UNCHANGED <<stderr, status>>
              ELSE /\ result' = result
                   /\ stderr' = Append(stderr,
                         Line("panic", "subgraph id is not a valid deployment hash", r.id, <<>>))
                   /\ status' = "panic"
                   /\ pc' = "exited"
    /\ UNCHANGED <<opt, sentinelOk, fileNo, srcNo, cur, name, derive, stage, sizes, lazies,
                   first, stdout, entry>>

\* derivation run whatever the flag says
AfterValidation_Always == "api_schema"

\* `if api`: the stage after semantic validation
AfterValidation == IF derive THEN "api_schema" ELSE "parse_return"

\* InputSchema::parse(&SPEC_VERSION_1_1_0, raw, id.clone())
InputSchemaParse ==
    /\ pc = "input_schema"
    /\ CallStage("InputSchema::parse", AfterValidation)
    /\ UNCHANGED <<opt, sentinelOk, fileNo, srcNo, cur, name, derive, stage, sizes, first,
                   stdout, stderr, status, entry>>

\* if api { input_schema.api_schema() }
ApiSchema ==
    /\ pc = "api_schema"
    /\ CallStage("api_schema", "parse_return")
    /\ UNCHANGED <<opt, sentinelOk, fileNo, srcNo, cur, name, derive, stage, sizes, first,
                   stdout, stderr, status, entry>>

\* parse returns Ok(id) or the error: its locals are dropped, the
\* identifier is kept only by an Ok result
ParseReturn ==
    /\ pc = "parse_return"
    /\ LET dropped == IF result.tag = "ok" THEN heap \ {"subgraph_id"} ELSE heap
       IN  /\ SetTracker(AfterDrop(Tracker, dropped, cur))
           /\ heap' = heap \ dropped
    /\ ev' = Append(ev, Event("return", "parse", result.tag = "ok", FALSE, 0))
    /\ pc' = IF opt.mode = "validate" THEN "validator_report" ELSE "primed"
    /\ UNCHANGED <<opt, sentinelOk, fileNo, srcNo, cur, name, derive, result, stage, sizes,
                   lazies, first, stdout, stderr, status, entry>>

(***************************************************************************)
(* impl Runner for Validator.                                              *)
(***************************************************************************)
\* Validator::run calls parse(raw, name, api)
ValidatorRun ==
    /\ pc = "run" /\ opt.mode = "validate"
    /\ derive' = opt.api
    /\ entry' = ALLOCATED
    /\ pc' = "parse_schema"
    /\ UNCHANGED <<opt, sentinelOk, fileNo, srcNo, cur, name, result, stage, sizes,
                   ALLOCATED, window, lazies, heap, first, stdout, stderr, status, ev>>

\* Validator::run matches on the result of parse
ValidatorReport ==
    /\ pc = "validator_report"
    /\ IF result.tag = "ok"
       THEN /\ stdout' = Append(stdout, Line("ok", "", result.id, <<>>))
            /\ SetTracker(AfterDrop(Tracker, heap, cur))
            /\ heap' = {}
            /\ pc' = AfterRun
            /\ status' = status
       ELSE /\ stdout' = Append(stdout, Line("error", result.stage, result.id, <<>>))
            /\ Exit("exit1")
            /\ UNCHANGED <<ALLOCATED, window, heap>>
    /\ UNCHANGED <<opt, sentinelOk, fileNo, srcNo, cur, name, derive, result, stage, sizes,
                   lazies, first, stderr, ev, entry>>

(***************************************************************************)
(* impl Sizer and impl Runner for Sizer.                                   *)
(***************************************************************************)
Header == <<"name", "raw", "gql", "input", "api", "api_text", "time_ns">>

\* Sizer::size without the warm-up call
SizeEntry_NoWarmUp == "size_reset"

\* first position of Sizer::size: the warm-up call
SizeEntry == "size_warm"

\* the header printed without clearing the flag
SizerHeader_NoSwap ==
    /\ stdout' = IF first THEN Append(stdout, Line("header", "", "", Header)) ELSE stdout
    /\ first' = first

\* `if self.first.swap(false) { println!(header) }`
SizerHeader ==
    /\ stdout' = IF first THEN Append(stdout, Line("header", "", "", Header)) ELSE stdout
    /\ first' = FALSE

\* Sizer::run prints the header on the first invocation and calls
\* collect_sizes, which starts the timer and calls parse(raw, name, true)
SizerRun ==
    /\ pc = "run" /\ opt.mode = "size"
    /\ SizerHeader
    /\ derive' = TRUE
    /\ entry' = ALLOCATED
    /\ ev' = Append(ev, Event("timer_start", "", TRUE, FALSE, 0))
    /\ pc' = "parse_schema"
    /\ UNCHANGED <<opt, sentinelOk, fileNo, srcNo, cur, name, result, stage, sizes,
                   ALLOCATED, window, lazies, heap, stderr, status>>

\* collect_sizes after the priming parse: `?`, elapsed, txt_size
Primed ==
    /\ pc = "primed"
    /\ IF result.tag = "ok"
       THEN /\ \E elapsed \in ElapsedNanos :
                 sizes' = [sizes EXCEPT !.time = elapsed, !.text = cur.len]
            /\ ev' = Append(ev, Event("timer_stop", "", TRUE, FALSE, 0))
            /\ stage' = "parse_schema"
            /\ entry' = ALLOCATED
            /\ pc' = SizeEntry
       ELSE /\ pc' = "sizer_report"
            /\ UNCHANGED <<sizes, ev, stage, entry>>
    /\ UNCHANGED <<opt, sentinelOk, fileNo, srcNo, cur, name, derive, result,
                   ALLOCATED, window, lazies, heap, first, stdout, stderr, status>>

\* Sizer::size, `f()?;`: the warm-up call, its value dropped at once;
\* on Err collect_sizes returns the error and drops its locals
SizeWarm ==
    /\ pc = "size_warm"
    /\ LET f == stage
           c == AfterCall(Tracker, lazies, f, AsLatest(cur))
           ok == CalleeOk(f, AsLatest(cur))
       IN  /\ lazies' = lazies \cup {f}
           /\ ev' = Append(ev, Event("warm", f, ok, f \notin lazies, Net(ALLOCATED, c.c)))
           /\ IF ok
              THEN /\ SetTracker(AfterDrop(c, {f}, cur))
                   /\ pc' = "size_reset"
                   /\ UNCHANGED <<heap, result>>
              ELSE /\ SetTracker(AfterDrop(c, heap, cur))
                   /\ heap' = {}
                   /\ result' = ErrResult(f, result.id)
                   /\ pc' = "sizer_report"
    /\ UNCHANGED <<opt, sentinelOk, fileNo, srcNo, cur, name, derive, stage, sizes, first,
                   stdout, stderr, status, entry>>

\* a reset that leaves the counter as it is
ResetValue_Keep == ALLOCATED

\* the value ALLOCATED.store(0) writes
ResetValue == 0

\* Sizer::size, ALLOCATED.store(0)
SizeReset ==
    /\ pc = "size_reset"
    /\ ALLOCATED' = ResetValue
    /\ window' = [base |-> 0, alloc |-> 0, free |-> 0]
    /\ ev' = Append(ev, Event("reset", stage, TRUE, FALSE, 0))
    /\ pc' = "size_run"
    /\ UNCHANGED <<opt, sentinelOk, fileNo, srcNo, cur, name, derive, result, stage, sizes,
                   lazies, heap, first, stdout, stderr, status, entry>>

\* Sizer::size, `let res = f()?;`: the measured call, its value kept
SizeRun ==
    /\ pc = "size_run"
    /\ LET f == stage
           c == AfterCall(Tracker, lazies, f, AsLatest(cur))
           ok == CalleeOk(f, AsLatest(cur))
       IN  /\ lazies' = lazies \cup {f}
           /\ ev' = Append(ev, Event("run", f, ok, f \notin lazies, Net(ALLOCATED, c.c)))
           /\ IF ok
              THEN /\ SetTracker(c)
                   /\ heap' = heap \cup {f}
                   /\ pc' = "size_read"
                   /\ result' = result
              ELSE /\ SetTracker(AfterDrop(c, heap, cur))
                   /\ heap' = {}
                   /\ result' = ErrResult(f, result.id)
                   /\ pc' = "sizer_report"
    /\ UNCHANGED <<opt, sentinelOk, fileNo, srcNo, cur, name, derive, stage, sizes, first,
                   stdout, stderr, status, entry>>

\* Sizer::size, ALLOCATED.load() and Ok((end, res)); collect_sizes binds
\* the size, drops the document of the first stage and goes on
SizeRead ==
    /\ pc = "size_read"
    /\ LET end == ALLOCATED IN
       /\ ev' = Append(ev, Event("read", stage, TRUE, FALSE, end))
       /\ CASE stage = "parse_schema" ->
                 /\ sizes' = [sizes EXCEPT !.gql = end]
                 /\ SetTracker(AfterDrop(Tracker, {stage}, cur))
                 /\ heap' = heap \ {stage}
                 /\ stage' = "InputSchema::parse_latest"
                 /\ entry' = ALLOCATED'
                 /\ pc' = SizeEntry
            [] stage = "InputSchema::parse_latest" ->
                 /\ sizes' = [sizes EXCEPT !.input = end]
                 /\ stage' = "api_schema"
                 /\ entry' = ALLOCATED
                 /\ pc' = SizeEntry
                 /\ UNCHANGED <<ALLOCATED, window, heap>>
            [] stage = "api_schema" ->
                 /\ sizes' = [sizes EXCEPT !.api = end]
                 /\ pc' = "collect_finish"
                 /\ UNCHANGED <<ALLOCATED, window, heap, stage, entry>>
    /\ UNCHANGED <<opt, sentinelOk, fileNo, srcNo, cur, name, derive, result, lazies, first,
                   stdout, stderr, status>>

\* collect_sizes: api_text, Ok(Sizes {..}); id, input_schema and api are dropped
CollectFinish ==
    /\ pc = "collect_finish"
    /\ sizes' = [sizes EXCEPT !.api_text = ApiTextLen(cur)]
    /\ SetTracker(AfterDrop(Tracker, heap, cur))
    /\ heap' = {}
    /\ ev' = Append(ev, Event("return", "collect_sizes", TRUE, FALSE, 0))
    /\ pc' = "sizer_report"
    /\ UNCHANGED <<opt, sentinelOk, fileNo, srcNo, cur, name, derive, result, stage,
                   lazies, first, stdout, stderr, status, entry>>

\* the fields of a data row after the name
RowFields(sz) == <<sz.text, sz.gql, sz.input, sz.api, sz.api_text, sz.time>>

\* Sizer::run matches on the result of collect_sizes
SizerReport ==
    /\ pc = "sizer_report"
    /\ IF result.tag = "ok"
       THEN /\ stdout' = Append(stdout, Line("row", "", "", RowFields(sizes)))
            /\ pc' = AfterRun
            /\ UNCHANGED <<stderr, status>>
       ELSE /\ stderr' = Append(stderr, Line("error", result.stage, result.id, <<>>))
            /\ Exit("exit1")
            /\ stdout' = stdout
    /\ UNCHANGED <<opt, sentinelOk, fileNo, srcNo, cur, name, derive, result, stage, sizes,
                   ALLOCATED, window, lazies, heap, first, ev, entry>>

(***************************************************************************)
(* The program.                                                            *)
(***************************************************************************)
Next ==
    \/ MainBatchOpen
    \/ MainBatchLine
    \/ MainSingleRead
    \/ MainReturn
    \/ ValidatorRun
    \/ ParseSchema
    \/ SubgraphId
    \/ InputSchemaParse
    \/ ApiSchema
    \/ ParseReturn
    \/ ValidatorReport
    \/ SizerRun
    \/ Primed
    \/ SizeWarm
    \/ SizeReset
    \/ SizeRun
    \/ SizeRead
    \/ CollectFinish
    \/ SizerReport

Spec == Init /\ [][Next]_vars

TypeOK ==
    /\ ALLOCATED \in 0..(Modulus - 1)
    /\ ALLOCATED = (window.base + window.alloc - window.free) % Modulus
    /\ status \in {"running", "exit0", "exit1", "panic"}
    /\ (status = "running") = (pc # "exited")
    /\ heap \subseteq Callees \cup {"subgraph_id"}
    /\ lazies \subseteq Callees

(***************************************************************************)
(* collect_sizes as a function of the source.                              *)
(***************************************************************************)
collect_sizes(src, sOk) ==
    LET p == parse(src, TRUE, sOk) IN
    IF p.tag # "ok" THEN p
    ELSE IF ~CalleeOk("parse_schema", src) THEN ErrResult("parse_schema", p.id)
    ELSE IF ~CalleeOk("InputSchema::parse_latest", src)
         THEN ErrResult("InputSchema::parse_latest", p.id)
    ELSE IF ~CalleeOk("api_schema", AsLatest(src)) THEN ErrResult("api_schema", p.id)
    ELSE p

\* what runner.run(raw, name, opt.api) comes to for a source
RunOutcome(src) ==
    IF opt.mode = "validate" THEN parse(src, opt.api, sentinelOk)
    ELSE collect_sizes(src, sentinelOk)

(***************************************************************************)
(* Properties.                                                             *)
(***************************************************************************)
LastOf(seq) == seq[Len(seq)]

\* the process ended in the panic of subgraph_id
IdFailed ==
    /\ status = "panic"
    /\ ev # <<>>
    /\ LastOf(ev).op = "stage" /\ LastOf(ev).f = "subgraph_id" /\ ~LastOf(ev).ok

\* the process ended in a panic of the source reader
IoFailed ==
    /\ status = "panic"
    /\ stderr # <<>>
    /\ LastOf(stderr).kind = "panic"
    /\ LastOf(stderr).stage \in {"file exists", "invalid line", "line is valid json"}

\* number of sources whose Runner invocation has come to its end
RunsFinished ==
    IF pc \in {"main", "lines"} \/ status \in {"exit0", "exit1"} \/ IoFailed
    THEN srcNo ELSE srcNo - 1

\* the stage calls of the pipeline for the current source, in order
StageCalls == SelectSeq(ev, LAMBDA e : e.op = "stage")

\* C1: in validate mode the output is one OK line per source, in input
\* order, for the sources before the first one for which parse returns an
\* error; that source gets exactly one error line, the process exits with
\* status 1 and nothing is run or reported after it.
C1_ValidateFailFast ==
    opt.mode = "validate" =>
        /\ Len(stdout) = RunsFinished
        /\ \A i \in 1..Len(stdout) :
             /\ stdout[i].src = i
             /\ \/ stdout[i].kind = "ok"
                \/ /\ stdout[i].kind = "error"
                   /\ i = Len(stdout)
                   /\ status = "exit1"
                   /\ pc = "exited"
        /\ status = "exit1" => (stdout # <<>> /\ LastOf(stdout).kind = "error")
        /\ (srcNo >= 1 /\ Len(stdout) = srcNo) =>
             /\ (LastOf(stdout).kind = "ok") = (parse(cur, opt.api, sentinelOk).tag = "ok")
             /\ (LastOf(stdout).kind = "error") = (parse(cur, opt.api, sentinelOk).tag = "err")

C1_Witness ==
    /\ opt.mode = "validate"
    /\ status = "exit1"
    /\ Len(stdout) = 2
    /\ stdout[1].kind = "ok"
    /\ stdout[2].kind = "error"
    /\ fileNo < opt.schemas

\* C2: in every stage measured by Sizer::size the warm-up call comes first,
\* then the reset, then the second call, then the read; a reset is never
\* made before the warm-up call has returned Ok, and after a failed
\* warm-up call there is no reset, no second call and no read.
C2_SizeOrder ==
    /\ \A i \in 1..Len(ev) :
         /\ ev[i].op = "reset" =>
              (i > 1 /\ ev[i-1].op = "warm" /\ ev[i-1].ok /\ ev[i-1].f = ev[i].f)
         /\ ev[i].op = "run" =>
              (i > 1 /\ ev[i-1].op = "reset" /\ ev[i-1].f = ev[i].f)
         /\ ev[i].op = "read" =>
              (i > 1 /\ ev[i-1].op = "run" /\ ev[i-1].ok /\ ev[i-1].f = ev[i].f)
         /\ (ev[i].op = "warm" /\ ev[i].ok /\ i < Len(ev)) => ev[i+1].op = "reset"
         /\ (ev[i].op = "warm" /\ ~ev[i].ok) =>
              \A j \in (i+1)..Len(ev) : ev[j].op \notin {"warm", "reset", "run", "read"}
    /\ pc = "size_run" => (ALLOCATED = 0 /\ LastOf(ev).op = "reset")
    /\ pc = "size_reset" => (LastOf(ev).op = "warm" /\ LastOf(ev).ok)

C2_Witness ==
    /\ pc = "exited"
    /\ ev # <<>>
    /\ LastOf(ev).op = "warm" /\ ~LastOf(ev).ok
    /\ \E i \in 1..Len(ev) : ev[i].op = "read"

\* C3: the size of a stage is the net footprint of the second call alone:
\* the bytes allocated less the bytes deallocated since the reset, the
\* value of the second call being live and that of the warm-up call gone;
\* one-time initialisation is not in it, so that it is at most what a cold
\* call of the same callee was seen to allocate.
C3_WarmFootprint ==
    /\ pc = "size_read" =>
         /\ window.base = 0
         /\ ALLOCATED = (window.alloc - window.free) % Modulus
         /\ ALLOCATED = ResultBytes(stage, cur)
         /\ stage \in heap
    /\ pc = "size_reset" => stage \notin heap
    /\ \A j \in 1..Len(ev) :
         ev[j].op = "read" =>
             /\ ev[j].val = ResultBytes(ev[j].f, cur)
             /\ \A i \in 1..Len(ev) :
                  (ev[i].f = ev[j].f /\ ev[i].cold /\ ev[i].ok) =>
                      /\ ev[i].val = LazyBytes + ResultBytes(ev[i].f, cur)
                      /\ ev[j].val <= ev[i].val

C3_Witness ==
    \E i, j \in 1..Len(ev) :
        /\ ev[j].op = "read"
        /\ ev[i].op = "warm" /\ ev[i].cold /\ ev[i].ok
        /\ ev[i].f = ev[j].f
        /\ ev[j].val < ev[i].val

\* C4: parse runs generic parse, identifier extraction, semantic
\* validation and, if requested, derivation, in this order; it returns the
\* error of the first failing stage without running a later one, and
\* Ok(id) only when every stage it ran succeeded.
C4_PipelineOrder ==
    LET calls == StageCalls
        order == <<"parse_schema", "subgraph_id", "InputSchema::parse", "api_schema">>
    IN  /\ Len(calls) <= 4
        /\ \A i \in 1..Len(calls) : calls[i].f = order[i]
        /\ \A i \in 1..(Len(calls) - 1) : calls[i].ok
        /\ Len(calls) = 4 => derive
        /\ pc = "parse_return" =>
             /\ result.tag \in {"ok", "err"}
             /\ result.tag = "ok" =>
                  /\ Len(calls) = (IF derive THEN 4 ELSE 3)
                  /\ \A i \in 1..Len(calls) : calls[i].ok
                  /\ result.id = IdString(cur.doc)
             /\ result.tag = "err" =>
                  /\ ~LastOf(calls).ok
                  /\ result.stage = LastOf(calls).f

C4_Witness ==
    /\ pc = "parse_return"
    /\ derive
    /\ result.tag = "err"
    /\ result.stage = "InputSchema::parse"
    /\ cur.apiOkLatest

\* some call of the derivation was made for the current source
DerivationCalled == \E i \in 1..Len(ev) : ev[i].f = "api_schema"

\* the current source has no defect but the derivation failure
OnlyDerivationFails(src) ==
    /\ parse(src, FALSE, sentinelOk).tag = "ok"
    /\ src.validLatest
    /\ ~src.apiOk

\* C5 as stated: without --api the derivation is never invoked, in either
\* Runner, and a source whose only defect is a derivation failure is not
\* reported as failed.
C5_Original ==
    ~opt.api =>
        /\ ~DerivationCalled
        /\ OnlyDerivationFails(cur) => status # "exit1"

\* C5 amended: the Validator derives only when --api is given and then
\* accepts a source whose only defect is a derivation failure; the Sizer
\* ignores the flag, always runs parse with derivation enabled and
\* measures the derivation, so that such a source fails there.
C5_DeriveOnlyInValidator ==
    /\ (opt.mode = "validate" /\ ~opt.api) =>
         /\ ~DerivationCalled
         /\ ~derive
         /\ OnlyDerivationFails(cur) => status # "exit1"
         /\ (OnlyDerivationFails(cur) /\ Len(stdout) = srcNo) => LastOf(stdout).kind = "ok"
    /\ (opt.mode = "validate" /\ pc = "parse_return" /\ result.tag = "ok") =>
         (DerivationCalled = opt.api)
    /\ (opt.mode = "size" /\ pc \in {"primed", "parse_return"} /\ result.tag = "ok") =>
         DerivationCalled
    /\ (opt.mode = "size" /\ OnlyDerivationFails(cur) /\ pc \in {"main", "lines", "exited"}) =>
         (status = "exit1" /\ result.stage = "api_schema")

C5_Witness ==
    /\ opt.mode = "validate" /\ ~opt.api
    /\ OnlyDerivationFails(cur)
    /\ Len(stdout) = srcNo
    /\ LastOf(stdout).kind = "ok"

\* C6 as stated: the exit status is 0 exactly when every source succeeded
\* and 1 on the first failure of any kind, the identifier-format and the
\* I/O and decode failures included.
C6_Original ==
    pc = "exited" =>
        IF IdFailed \/ IoFailed \/ result.tag = "err"
        THEN status = "exit1" ELSE status = "exit0"

\* C6 amended: the exit status is 0 exactly when every source succeeded;
\* it is 1 when the pipeline or the profiler returned a parse, validation
\* or derivation error; an identifier-format, I/O or decode failure ends
\* the process in a panic, whose status is neither 0 nor 1.
C6_ExitStatus ==
    /\ (pc = "exited") = (status # "running")
    /\ pc = "exited" =>
         /\ (status = "exit0") = (~IdFailed /\ ~IoFailed /\ result.tag # "err")
         /\ (status = "exit1") = (result.tag = "err")
         /\ (status = "panic") = (IdFailed \/ IoFailed)
         /\ status = "exit0" => (fileNo = opt.schemas /\ RunsFinished = srcNo)
         /\ (srcNo >= 1 /\ ~IoFailed) =>
              /\ (status = "exit1") = (RunOutcome(cur).tag = "err")
              /\ (status = "panic") = (RunOutcome(cur).tag = "panic")
              /\ (status = "exit0") = (RunOutcome(cur).tag = "ok")

C6_Witness ==
    /\ pc = "exited"
    /\ IdFailed
    /\ srcNo = 2

\* C7: in size mode the header is printed once, by the first Runner
\* invocation, before every data row; every source that profiles
\* successfully adds exactly one row, in input order, whose raw field is
\* the byte length of its text.
C7_HeaderOnce ==
    opt.mode = "size" =>
        /\ (stdout = <<>>) = first
        /\ first = (srcNo = 0 \/ (srcNo = 1 /\ pc = "run"))
        /\ stdout # <<>> =>
             /\ stdout[1].kind = "header" /\ stdout[1].src = 1 /\ stdout[1].fields = Header
             /\ \A i \in 2..Len(stdout) : stdout[i].kind = "row" /\ stdout[i].src = i - 1
             /\ Len(stdout) = 1 + RunsFinished - (IF status = "exit1" THEN 1 ELSE 0)
        /\ (srcNo >= 1 /\ Len(stdout) = 1 + srcNo) =>
             /\ collect_sizes(cur, sentinelOk).tag = "ok"
             /\ LastOf(stdout).name = name
             /\ LastOf(stdout).fields[1] = cur.len
        /\ (srcNo >= 1 /\ RunsFinished = srcNo /\ collect_sizes(cur, sentinelOk).tag = "ok") =>
             Len(stdout) = 1 + srcNo

C7_Witness ==
    /\ opt.mode = "size"
    /\ Len(stdout) = 3
    /\ stdout[2].kind = "row" /\ stdout[3].kind = "row"

\* the stage call of subgraph_id for the current source failed
ExtractionFailed ==
    \E i \in 1..Len(ev) : ev[i].op = "stage" /\ ev[i].f = "subgraph_id" /\ ~ev[i].ok

\* C8: when the extracted string is not a deployment hash the process
\* aborts in subgraph_id, in either mode: semantic validation is not
\* called, parse returns no error for it, and the source gets neither a
\* report line nor an Error line.
C8_IdentifierAbort ==
    /\ ExtractionFailed =>
         /\ status = "panic" /\ pc = "exited"
         /\ \A i \in 1..Len(ev) : ev[i].f \notin {"InputSchema::parse", "api_schema"}
         /\ \A i \in 1..Len(ev) : ev[i].op # "return"
         /\ result.tag = "none"
         /\ \A i \in 1..Len(stdout) :
              stdout[i].src = srcNo => stdout[i].kind = "header"
         /\ \A i \in 1..Len(stderr) :
              (stderr[i].src = srcNo /\ stderr[i].kind # "banner") =>
                  (i = Len(stderr) /\ stderr[i].kind = "panic")
    /\ (/\ srcNo >= 1
        /\ pc \notin {"run", "parse_schema", "subgraph_id"}
        /\ cur.parses
        /\ ~DeploymentHashNew(IdString(cur.doc), sentinelOk)) => ExtractionFailed

C8_Witness ==
    /\ ExtractionFailed
    /\ opt.mode = "size"
    /\ srcNo = 2

(***************************************************************************)
(* Identifier extraction on its own: every document of at most MaxDefs     *)
(* definitions is handed to subgraph_id.                                   *)
(***************************************************************************)
Documents == UNION { [1..n -> Definitions] : n \in 0..MaxDefs }

InitExtract ==
    /\ opt \in [batch : {FALSE}, api : {FALSE}, mode : {"validate"}, schemas : {1}]
    /\ sentinelOk \in BOOLEAN
    /\ pc = "subgraph_id"
    /\ fileNo = 1
    /\ srcNo = 1
    /\ cur \in [len : {1}, parses : {TRUE}, doc : Documents, valid110 : {TRUE},
                validLatest : {TRUE}, apiOk : {TRUE}, apiOkLatest : {TRUE}]
    /\ name = <<"a">>
    /\ derive = FALSE
    /\ result = NoResult
    /\ stage = ""
    /\ sizes = NoSizes
    /\ ALLOCATED = 0
    /\ window = [base |-> 0, alloc |-> 0, free |-> 0]
    /\ lazies = {}
    /\ heap = {}
    /\ first = TRUE
    /\ stdout = <<>>
    /\ stderr = <<>>
    /\ status = "running"
    /\ ev = <<>>
    /\ entry = 0

NextExtract == SubgraphId

SpecExtract == InitExtract /\ [][NextExtract]_vars

\* positions of the object types in a document
ObjectPositions(doc) == { i \in 1..Len(doc) : doc[i].kind = "object" }

\* the String id of the definition at position i, or the sentinel
StringIdAt(doc, i) ==
    IF doc[i].subgraphId.tag = "string" THEN doc[i].subgraphId.str ELSE "unknown"

\* the identifier string subgraph_id came to for the current source
Extracted == IF LastOf(ev).ok THEN result.id ELSE LastOf(stderr).id

\* C9: identifier extraction looks at the first object type only: the
\* string is the String value of the id argument of its subgraphId
\* directive, and the sentinel "unknown" in every other case, also when a
\* later object type carries the directive.
C9_FirstObjectOnly ==
    (ev # <<>> /\ LastOf(ev).f = "subgraph_id") =>
        LET pos == ObjectPositions(cur.doc)
            expected == IF pos = {} THEN "unknown"
                        ELSE StringIdAt(cur.doc, CHOOSE i \in pos : \A k \in pos : i <= k)
        IN  /\ Extracted = expected
            /\ LastOf(ev).ok = DeploymentHashNew(expected, sentinelOk)

C9_Witness ==
    /\ ev # <<>> /\ LastOf(ev).f = "subgraph_id"
    /\ Len(cur.doc) = 3
    /\ cur.doc[1].kind = "other" /\ cur.doc[1].subgraphId = StringArg("QmGood")
    /\ cur.doc[2].kind = "object" /\ cur.doc[2].subgraphId = NonString
    /\ cur.doc[3].kind = "object" /\ cur.doc[3].subgraphId = StringArg("QmOther")
    /\ Extracted = "unknown"

\* C10: what the pipeline comes to for a source (Ok or the failing stage,
\* and the identifier) is a function of the source and the derive flag
\* alone: it is the same whatever the counter holds when parse is entered
\* and whatever calls and resets came before, so that a second run on the
\* same source repeats the first.
C10_OutcomeIgnoresCounter ==
    /\ pc \in {"parse_return", "validator_report", "primed"} =>
         result = parse(cur, derive, sentinelOk)
    /\ ExtractionFailed =>
         /\ parse(cur, derive, sentinelOk).tag = "panic"
         /\ parse(cur, derive, sentinelOk).id = LastOf(stderr).id
    /\ (srcNo >= 1 /\ pc = "exited" /\ ~IoFailed) =>
         (ExtractionFailed = (parse(cur, derive, sentinelOk).tag = "panic"))

C10_Witness ==
    /\ opt.mode = "size"
    /\ pc = "primed"
    /\ srcNo = 2
    /\ entry # 0
    /\ first = FALSE
    /\ result.tag = "ok"

\* a line that reports a failure: the Error line of a Runner or the message
\* of a panic
Diagnostic(l) == l.kind \in {"error", "panic"}

\* C11: whenever the process ends in a failure, in validate mode as well
\* as in size mode, a diagnostic of that failure has been written to the
\* error stream by the time the process exits.
C11_DiagnosticOnErrorStream ==
    (pc = "exited" /\ status # "exit0") =>
        /\ stderr # <<>>
        /\ Diagnostic(LastOf(stderr))

\* some call made for the current source failed
ProfilingFailed == \E i \in 1..Len(ev) : ~ev[i].ok

\* C12: in size mode, once a step of profiling a source has failed (in the
\* priming run of the pipeline, in a warm-up call or in a measured call),
\* no further call is made for it and no later source is read; the source
\* gets no data row, a diagnostic for it is the last line of the error
\* stream, and the process exits with a non-zero status.
C12_SizeFailFast ==
    (opt.mode = "size" /\ ProfilingFailed) =>
        /\ pc \in {"parse_return", "primed", "sizer_report", "exited"}
        /\ \A i \in 1..Len(ev) :
             ~ev[i].ok => \A j \in (i+1)..Len(ev) : ev[j].op = "return"
        /\ \A i \in 1..Len(stdout) : stdout[i].src = srcNo => stdout[i].kind = "header"
        /\ Len(stdout) = srcNo
        /\ sizes.api_text = 0
        /\ pc = "exited" =>
             /\ status \in {"exit1", "panic"}
             /\ stderr # <<>>
             /\ Diagnostic(LastOf(stderr))
             /\ LastOf(stderr).src = srcNo
             /\ LastOf(stderr).name = name

C12_Witness ==
    /\ opt.mode = "size"
    /\ pc = "exited"
    /\ status = "exit1"
    /\ srcNo = 2
    /\ fileNo < opt.schemas
    /\ Len(stdout) = 2
    /\ LastOf(ev).op = "warm" /\ ~LastOf(ev).ok
    /\ LastOf(stderr).kind = "error"
    /\ LastOf(stderr).stage = "InputSchema::parse_latest"

(***************************************************************************)
(* The text of a data row.                                                 *)
(***************************************************************************)
\* the characters of "," followed by each number in turn, as {} prints them
RECURSIVE CommaNumbers(_)
CommaNumbers(fields) ==
    IF fields = <<>> THEN <<>>
    ELSE <<",">> \o Decimal(Head(fields)) \o CommaNumbers(Tail(fields))

\* println!("{name},{},{},{},{},{},{}", ..): the name as it is, then the numbers
RowText(l) == l.name \o CommaNumbers(l.fields)

\* number of fields a reader of the CSV finds in a line: one more than its commas
FieldCount(text) == 1 + Len(SelectSeq(text, LAMBDA ch : ch = ","))

\* C13: every data row printed in size mode has exactly 7 comma-separated
\* fields, as many as the header, whatever name the source reader supplied
\* (a path in single mode, sgd<id> in batch mode).
C13_RowHasSevenFields ==
    \A i \in 1..Len(stdout) :
        stdout[i].kind = "row" =>
            /\ FieldCount(RowText(stdout[i])) = 7
            /\ FieldCount(RowText(stdout[i])) = Len(Header)

(***************************************************************************)
(* The allocation counter on its own: any code of the process calls the    *)
(* global allocator with any layout, in any order, and the profiler        *)
(* resets the counter in between.                                          *)
(***************************************************************************)
\* layout.size() of the blocks allocated and deallocated
LayoutSizes == {1, LazyBytes, Modulus - 1}

InitCounter ==
    /\ opt \in [batch : {FALSE}, api : {FALSE}, mode : {"size"}, schemas : {1}]
    /\ sentinelOk = TRUE
    /\ pc = "allocator"
    /\ fileNo = 0
    /\ srcNo = 0
    /\ cur = NoSource
    /\ name = <<>>
    /\ derive = FALSE
    /\ result = NoResult
    /\ stage = ""
    /\ sizes = NoSizes
    /\ ALLOCATED = 0
    /\ window = [base |-> 0, alloc |-> 0, free |-> 0]
    /\ lazies = {}
    /\ heap = {}
    /\ first = TRUE
    /\ stdout = <<>>
    /\ stderr = <<>>
    /\ status = "running"
    /\ ev = <<>>
    /\ entry = 0

\* Counter::alloc: System.alloc returns a block or null
alloc ==
    /\ pc = "allocator" /\ Len(ev) < MaxCalls
    /\ \E size \in LayoutSizes, isNull \in BOOLEAN :
         /\ ALLOCATED' = CounterAlloc(ALLOCATED, size, isNull)
         /\ window' = IF isNull THEN window ELSE [window EXCEPT !.alloc = @ + size]
         /\ ev' = Append(ev, Event("alloc", "", ~isNull, FALSE, size))
    /\ UNCHANGED <<opt, sentinelOk, pc, fileNo, srcNo, cur, name, derive, result, stage,
                   sizes, lazies, heap, first, stdout, stderr, status, entry>>

\* Counter::dealloc
dealloc ==
    /\ pc = "allocator" /\ Len(ev) < MaxCalls
    /\ \E size \in LayoutSizes :
         /\ ALLOCATED' = CounterDealloc(ALLOCATED, size)
         /\ window' = [window EXCEPT !.free = @ + size]
         /\ ev' = Append(ev, Event("dealloc", "", TRUE, FALSE, size))
    /\ UNCHANGED <<opt, sentinelOk, pc, fileNo, srcNo, cur, name, derive, result, stage,
                   sizes, lazies, heap, first, stdout, stderr, status, entry>>

\* ALLOCATED.store(0) of Sizer::size
store ==
    /\ pc = "allocator" /\ Len(ev) < MaxCalls
    /\ ALLOCATED' = ResetValue
    /\ window' = [base |-> 0, alloc |-> 0, free |-> 0]
    /\ ev' = Append(ev, Event("reset", "", TRUE, FALSE, 0))
    /\ UNCHANGED <<opt, sentinelOk, pc, fileNo, srcNo, cur, name, derive, result, stage,
                   sizes, lazies, heap, first, stdout, stderr, status, entry>>

NextCounter == alloc \/ dealloc \/ store

SpecCounter == InitCounter /\ [][NextCounter]_vars

\* position of the last reset in the log, 0 when there was none
LastReset ==
    LET resets == { i \in 1..Len(ev) : ev[i].op = "reset" }
    IN  IF resets = {} THEN 0 ELSE CHOOSE i \in resets : \A k \in resets : k <= i

\* sum of the sizes of the logged calls `op` that took effect, from position i on
RECURSIVE SizesFrom(_, _)
SizesFrom(op, i) ==
    IF i > Len(ev) THEN 0
    ELSE (IF ev[i].op = op /\ ev[i].ok THEN ev[i].val ELSE 0) + SizesFrom(op, i + 1)

\* C14: after any sequence of allocator calls and resets the counter is the
\* sum of the sizes of the allocations that returned a block since the last
\* reset, less the sum of the sizes of the deallocations since then, modulo
\* 2^w; an allocation that returned null adds nothing.
C14_CounterArithmetic ==
    /\ ALLOCATED \in 0..(Modulus - 1)
    /\ ALLOCATED = (SizesFrom("alloc", LastReset + 1)
                    - SizesFrom("dealloc", LastReset + 1)) % Modulus
    /\ (ev # <<>> /\ LastOf(ev).op = "reset") => ALLOCATED = 0

C14_Witness ==
    /\ Len(ev) = MaxCalls
    /\ LastReset = 2
    /\ ev[1].op = "alloc" /\ ev[1].ok
    /\ ev[3].op = "alloc" /\ ~ev[3].ok
    /\ ev[4].op = "dealloc"
    /\ ALLOCATED = Modulus - LazyBytes

\* the four steps of measuring one stage
Measured(f) == << <<"warm", f>>, <<"reset", f>>, <<"run", f>>, <<"read", f>> >>

\* the steps of profiling one source, in order
ProfileSteps ==
    << <<"timer_start", "">>,
       <<"stage", "parse_schema">>, <<"stage", "subgraph_id">>,
       <<"stage", "InputSchema::parse">>, <<"stage", "api_schema">>,
       <<"timer_stop", "">> >>
    \o Measured("parse_schema")
    \o Measured("InputSchema::parse_latest")
    \o Measured("api_schema")

\* the steps taken for the current source, the returns of parse and
\* collect_sizes left out
StepsTaken == SelectSeq(ev, LAMBDA e : e.op # "return")

\* collect_sizes returned a Sizes record for the current source
RecordProduced ==
    \E i \in 1..Len(ev) : ev[i].op = "return" /\ ev[i].f = "collect_sizes"

\* C15: profiling a source takes these steps in this order: the timer is
\* started, the pipeline is run once with derivation enabled, the timer is
\* read, and then the generic parse, the validation and the derivation are
\* each called exactly twice, a warm-up call and a measured call with the
\* reset in between; the priming run is over before the first reset.  A
\* failing step is the last step, and a Sizes record is produced only
\* after all of them.
C15_ProfilingOrder ==
    opt.mode = "size" =>
        LET steps == StepsTaken IN
        /\ Len(steps) <= Len(ProfileSteps)
        /\ \A i \in 1..Len(steps) : <<steps[i].op, steps[i].f>> = ProfileSteps[i]
        /\ \A i \in 1..(Len(steps) - 1) : steps[i].ok
        /\ RecordProduced =>
             /\ Len(steps) = Len(ProfileSteps)
             /\ \A i \in 1..Len(steps) : steps[i].ok
             /\ LastOf(ev).f = "collect_sizes"
        /\ (pc = "sizer_report" /\ result.tag = "ok") => RecordProduced
        /\ (steps # <<>> /\ ~LastOf(steps).ok) =>
             /\ ~RecordProduced
             /\ sizes.api_text = 0
        /\ \A i \in 2..Len(stdout) : stdout[i].src = srcNo => RecordProduced
        /\ \A f \in {"parse_schema", "InputSchema::parse_latest", "api_schema"} :
             RecordProduced =>
                 Len(SelectSeq(steps, LAMBDA e : e.f = f /\ e.op \in {"warm", "run"})) = 2

C15_Witness ==
    /\ opt.mode = "size"
    /\ srcNo = 2
    /\ RecordProduced
    /\ Len(StepsTaken) = 18
    /\ pc = "sizer_report"

\* the lines that report a source that ran to its end: OK lines and data rows
Reports == SelectSeq(stdout, LAMBDA l : l.kind \in {"ok", "row"})

\* the banners printed when a path argument is taken up
Banners == SelectSeq(stderr, LAMBDA l : l.kind = "banner")

\* C16: in batch mode the files are taken up in argument order and the
\* records of a file are decoded and run one at a time: when the next line
\* is read every record before it has been run and reported, in order.  A
\* line that cannot be read or decoded, and a file that cannot be opened,
\* end the process only after every earlier record was run and reported,
\* and are never reached after a record that failed.
C16_BatchOrder ==
    opt.batch =>
        /\ Len(Banners) = fileNo
        /\ \A k \in 1..Len(Banners) : Banners[k].src = k
        /\ \A i \in 1..Len(Reports) : Reports[i].src = i
        /\ pc \in {"main", "lines"} =>
             /\ Len(Reports) = srcNo
             /\ result.tag \in {"none", "ok"}
        /\ IoFailed =>
             /\ Len(Reports) = srcNo
             /\ result.tag \in {"none", "ok"}
             /\ ~ExtractionFailed
             /\ \A i \in 1..(Len(stderr) - 1) : ~Diagnostic(stderr[i])
             /\ \A i \in 1..Len(stdout) : stdout[i].kind # "error"
        /\ (result.tag = "err" \/ ExtractionFailed) => ~IoFailed

C16_Witness ==
    /\ opt.batch
    /\ IoFailed
    /\ LastOf(stderr).stage = "line is valid json"
    /\ fileNo = 2
    /\ srcNo = 2
    /\ Len(Reports) = 2

\* C17: the size reported for a measured stage is a function of the source
\* and the stage alone: whatever the counter holds when Sizer::size is
\* entered (what earlier stages and earlier sources left, a value wrapped
\* below zero included), the counter is zero when the measured call
\* starts, and the value read, the field of the Sizes record and the field
\* of the printed row are the bytes of the measured call's live result.
C17_SizeIgnoresEntry ==
    /\ pc = "size_warm" => entry = ALLOCATED
    /\ pc = "size_run" => ALLOCATED = 0
    /\ pc = "size_read" => ALLOCATED = ResultBytes(stage, cur)
    /\ (pc \in {"size_warm", "size_reset", "size_run", "size_read"}
        /\ stage # "parse_schema") => sizes.gql = ResultBytes("parse_schema", cur)
    /\ (pc \in {"size_warm", "size_reset", "size_run", "size_read"}
        /\ stage = "api_schema") => sizes.input = ResultBytes("InputSchema::parse_latest", cur)
    /\ RecordProduced =>
         /\ sizes.gql = ResultBytes("parse_schema", cur)
         /\ sizes.input = ResultBytes("InputSchema::parse_latest", cur)
         /\ sizes.api = ResultBytes("api_schema", cur)
    /\ \A i \in 1..Len(stdout) :
         (stdout[i].kind = "row" /\ stdout[i].src = srcNo) =>
             /\ stdout[i].fields[2] = ResultBytes("parse_schema", cur)
             /\ stdout[i].fields[3] = ResultBytes("InputSchema::parse_latest", cur)
             /\ stdout[i].fields[4] = ResultBytes("api_schema", cur)

C17_Witness ==
    /\ pc = "size_read"
    /\ stage = "parse_schema"
    /\ srcNo = 2
    /\ entry >= Modulus \div 2
    /\ ALLOCATED = ResultBytes("parse_schema", cur)

\* a data row was printed for the current source
RowPrinted == \E i \in 1..Len(stdout) : stdout[i].kind = "row" /\ stdout[i].src = srcNo

\* the Runner invocation for the current source is over
RunOver == srcNo >= 1 /\ pc \in {"main", "lines", "exited"}

\* C18 as stated: in size mode a row is printed for a source exactly when
\* parse with derivation enabled succeeds on it, and no warm-up or
\* measured call fails on a source the priming run accepted.
C18_Original ==
    opt.mode = "size" =>
        /\ RunOver => (RowPrinted = (parse(cur, TRUE, sentinelOk).tag = "ok"))
        /\ \A i \in 1..Len(ev) : ev[i].op \in {"warm", "run"} => ev[i].ok

\* C18 amended: in size mode a row is printed for a source exactly when
\* parse with derivation enabled succeeds on it and, in addition, the
\* validation under the latest specification version and the derivation
\* from the schema so validated succeed; a source that the pipeline's
\* fixed version accepts and the latest version rejects passes the
\* priming run, fails in the warm-up of the measured validation and gets
\* an Error line instead of a row.  The measured generic parse never
\* fails after the priming run.
C18_RowIffProfiled ==
    opt.mode = "size" =>
        /\ RunOver =>
             /\ RowPrinted = (/\ parse(cur, TRUE, sentinelOk).tag = "ok"
                              /\ CalleeOk("InputSchema::parse_latest", cur)
                              /\ CalleeOk("api_schema", AsLatest(cur)))
             /\ RowPrinted = (collect_sizes(cur, sentinelOk).tag = "ok")
             /\ (/\ parse(cur, TRUE, sentinelOk).tag = "ok"
                 /\ ~CalleeOk("InputSchema::parse_latest", cur)) =>
                    /\ status = "exit1"
                    /\ result.stage = "InputSchema::parse_latest"
                    /\ LastOf(stderr).kind = "error"
        /\ \A i \in 1..Len(ev) :
             (ev[i].op \in {"warm", "run"} /\ ~ev[i].ok) =>
                 /\ ev[i].f \in {"InputSchema::parse_latest", "api_schema"}
                 /\ ev[i].op = "warm"
                 /\ parse(cur, TRUE, sentinelOk).tag = "ok"

C18_Witness ==
    /\ opt.mode = "size"
    /\ RunOver
    /\ parse(cur, TRUE, sentinelOk).tag = "ok"
    /\ ~CalleeOk("InputSchema::parse_latest", cur)
    /\ ~RowPrinted
    /\ status = "exit1"

====
